---- MODULE Spec2Model ----
(***************************************************************************)
(* Market structure and runner selection engine of betflow.                *)
(*                                                                         *)
(* Prices are decimal odds with two decimals; the model keeps them as      *)
(* integers in hundredths (3.05 is 305).  Ratios and implied-probability   *)
(* sums are exact rationals [n, d].  Python's None is NoPrice for a price  *)
(* and NoneStr for a string.                                               *)
(***************************************************************************)
EXTENDS Integers, Sequences, FiniteSets, TLC

VARIABLES
    pc,                 \* position in the evaluation of one market
    cfg,                \* FilterConfig
    country,            \* market_catalogue["event"]["countryCode"]
    total_matched,      \* market_book["totalMatched"]
    book,               \* market_book["runners"]
    ladders,            \* list[RunnerLadder]
    metrics,            \* MarketStructureMetrics
    accepted,           \* evaluate_market_rules: accepted
    region_code,        \* evaluate_market_rules: region_code
    results,            \* evaluate_market_rules: results
    selected,           \* select_candidate_runner: selected runner
    debug,              \* select_candidate_runner: audit rows
    eligible_primary,   \* select_candidate_runner: PRIMARY pool
    eligible_secondary, \* select_candidate_runner: SECONDARY pool
    rerun_selected,     \* select_candidate_runner, second run: selected runner
    rerun_debug,        \* select_candidate_runner, second run: audit rows
    cat,                \* inspect_one_market: answer of listMarketCatalogue
    rpc_book,           \* inspect_one_market: answer of listMarketBook
    p1,                 \* a price: tick_size(price), ticks_between(back, ...)
    p2,                 \* a second price: ticks_between(..., lay)
    t1,                 \* tick_size(p1)
    t2,                 \* tick_size(p2)
    tick_count,         \* ticks_between(p1, p2): ticks
    walk_cur,           \* ticks_between(p1, p2): cur
    walk_iter           \* ticks_between(p1, p2): iterations of the loop so far

\* what the rule evaluation and the selection never touch
auxvars == <<rerun_selected, rerun_debug, cat, rpc_book, p1, p2, t1, t2, tick_count,
             walk_cur, walk_iter>>

vars == <<pc, cfg, country, total_matched, book, ladders, metrics, accepted,
          region_code, results, selected, debug, eligible_primary, eligible_secondary,
          auxvars>>

-----------------------------------------------------------------------------
(* Bounds of the model *)

MaxRegions == 2
MaxRunners == 3

-----------------------------------------------------------------------------
(* Python values *)

NoneStr == "<None>"
NoPrice == 0 - 1
NoInt == 0 - 1
NoRunner == [selection_id |-> 0, best_back |-> NoPrice, best_lay |-> NoPrice]

Min(a, b) == IF a <= b THEN a ELSE b
Max(a, b) == IF a >= b THEN a ELSE b
Abs(a) == IF a < 0 THEN 0 - a ELSE a
MinOf(S) == CHOOSE x \in S : \A y \in S : x <= y

RECURSIVE Gcd(_, _)
Gcd(a, b) == IF b = 0 THEN a ELSE Gcd(b, a % b)

\* exact rational n/d with d > 0, kept in lowest terms
Rat(n, d) == LET g == Gcd(Abs(n), d) IN [n |-> n \div g, d |-> d \div g]
RatAdd(x, y) == Rat(x.n * y.d + y.n * x.d, x.d * y.d)
RatGE(x, y) == x.n * y.d >= y.n * x.d
RatGT(x, y) == x.n * y.d > y.n * x.d
RatLT(x, y) == x.n * y.d < y.n * x.d
RatMax(x, y) == IF RatGE(x, y) THEN x ELSE y

\* list.sort(key=...): the stable sort of s by the strict order Less on keys
StableSort(s, Less(_, _)) ==
    [k \in 1..Len(s) |->
        s[CHOOSE i \in 1..Len(s) :
            Cardinality({j \in 1..Len(s) :
                \/ Less(s[j], s[i])
                \/ (~Less(s[i], s[j]) /\ j < i)}) = k - 1]]

\* str.strip().upper() on the country codes of the model
Upper(s) ==
    CASE s = "gb" -> "GB"
      [] s = " gb " -> "GB"
      [] s = "ie" -> "IE"
      [] s = " " -> ""
      [] OTHER -> s

-----------------------------------------------------------------------------
(* Tick helpers: markets/structure_metrics.py *)

\* (inclusive lower bound, inclusive upper bound, tick size), in hundredths
TICK_BANDS ==
    << <<101, 200, 1>>, <<200, 300, 2>>, <<300, 400, 5>>, <<400, 600, 10>>,
       <<600, 1000, 20>>, <<1000, 2000, 50>>, <<2000, 3000, 100>>,
       <<3000, 5000, 200>>, <<5000, 10000, 500>>, <<10000, 100000, 1000>> >>

TickFallback == 1
MaxTickSteps == 10000
FarAway == 9999
NoneLast == 999900

\* a scan in which the last band holding the price decides
TickScan_UpperBand(p, i) ==
    LET hit == {k \in i..Len(TICK_BANDS) : TICK_BANDS[k][1] <= p /\ p <= TICK_BANDS[k][2]}
    IN  IF hit = {} THEN TickFallback
        ELSE TICK_BANDS[CHOOSE k \in hit : \A j \in hit : j <= k][3]

\* for lo, hi, t in _TICK_BANDS: the first band holding the price decides;
\* no band: the fallback
RECURSIVE TickScan(_, _)
TickScan(p, i) ==
    IF i > Len(TICK_BANDS) THEN TickFallback
    ELSE IF TICK_BANDS[i][1] <= p /\ p <= TICK_BANDS[i][2] THEN TICK_BANDS[i][3]
    ELSE TickScan(p, i + 1)

tick_size(p) == TickScan(p, 1)

RECURSIVE TickWalk(_, _, _, _)
TickWalk(cur, l, ticks, left) ==
    IF left = 0 THEN ticks
    ELSE LET nxt == cur + tick_size(cur) IN
         IF nxt >= l THEN ticks + 1 ELSE TickWalk(nxt, l, ticks + 1, left - 1)

ticks_between(back, lay) ==
    IF lay <= back THEN 0 ELSE TickWalk(back, lay, 0, MaxTickSteps)

\* round(n / d) of Python 3: to the nearest integer, a tie to the even one
RoundHalfEven(n, d) ==
    LET q == n \div d
        r == n % d
    IN  IF 2 * r < d THEN q
        ELSE IF 2 * r > d THEN q + 1
        ELSE IF q % 2 = 0 THEN q ELSE q + 1

\* _distance_ticks(price, centre); centre2 is twice the centre, a band's
\* midpoint (min + max) / 2 being a multiple of 0.005
distance_ticks(price, centre2) ==
    IF price <= 0 \/ centre2 <= 0 THEN FarAway
    ELSE RoundHalfEven(Abs(2 * price - centre2), 2 * tick_size(price))

-----------------------------------------------------------------------------
(* Ladder and metrics: markets/structure_metrics.py *)

RunnerLadder(sid, back, lay) == [selection_id |-> sid, best_back |-> back, best_lay |-> lay]

spread_ticks(r) ==
    IF r.best_back = NoPrice \/ r.best_lay = NoPrice THEN NoInt
    ELSE ticks_between(r.best_back, r.best_lay)

implied_prob(r) ==
    IF r.best_back = NoPrice \/ r.best_back <= 0 THEN Rat(0, 1) ELSE Rat(100, r.best_back)

\* _best_price(ex, side): the price of the first offer, None for no offer
best_price(offers) == IF offers = <<>> THEN NoPrice ELSE offers[1]

\* a ladder built from every runner of the book
IsActive_AnyStatus(rb) == TRUE

IsActive(rb) == rb.status = "ACTIVE"

IsPriced(r) == r.best_back # NoPrice /\ r.best_back > 0

\* a key that is the bare price, None below every price
LadderKeyLess_BarePrice(a, b) == a.best_back < b.best_back

\* key (best_back is None, best_back or 9999.0)
LadderKeyLess(a, b) ==
    LET ka == IF a.best_back = NoPrice THEN <<1, NoneLast>>
              ELSE <<0, IF a.best_back = 0 THEN NoneLast ELSE a.best_back>>
        kb == IF b.best_back = NoPrice THEN <<1, NoneLast>>
              ELSE <<0, IF b.best_back = 0 THEN NoneLast ELSE b.best_back>>
    IN  ka[1] < kb[1] \/ (ka[1] = kb[1] /\ ka[2] < kb[2])

build_runner_ladders(bk) ==
    LET act == SelectSeq(bk, IsActive)
        out == [i \in 1..Len(act) |->
                   RunnerLadder(act[i].selectionId,
                                best_price(act[i].availableToBack),
                                best_price(act[i].availableToLay))]
    IN  StableSort(out, LadderKeyLess)

Priced(rows) == SelectSeq(rows, IsPriced)

\* a slice one row longer than asked for
Take_OneMore(rows, n) == SubSeq(rows, 1, Min(Max(n + 1, 0), Len(rows)))

Take(rows, n) == SubSeq(rows, 1, Min(Max(n, 0), Len(rows)))

RECURSIVE ImpliedSum(_)
ImpliedSum(rows) ==
    IF rows = <<>> THEN Rat(0, 1)
    ELSE RatAdd(ImpliedSum(SubSeq(rows, 1, Len(rows) - 1)), implied_prob(rows[Len(rows)]))

Sentinel == 999

\* a soup ratio that defaults to zero, as the tier ratio does
soup_band_ratio_ZeroDefault(soup_rows) ==
    IF Len(soup_rows) >= 2
    THEN LET prices == {soup_rows[i].best_back : i \in 1..Len(soup_rows)}
             mn == CHOOSE x \in prices : \A y \in prices : x <= y
             mx == CHOOSE x \in prices : \A y \in prices : x >= y
         IN  IF mn > 0 THEN Rat(mx, mn) ELSE Rat(0, 1)
    ELSE Rat(0, 1)

soup_band_ratio(soup_rows) ==
    IF Len(soup_rows) >= 2
    THEN LET prices == {soup_rows[i].best_back : i \in 1..Len(soup_rows)}
             mn == CHOOSE x \in prices : \A y \in prices : x <= y
             mx == CHOOSE x \in prices : \A y \in prices : x >= y
         IN  IF mn > 0 THEN Rat(mx, mn) ELSE Rat(Sentinel, 1)
    ELSE Rat(Sentinel, 1)

\* the ratio of the first adjacent pair alone
TierMax_FirstPair(tier_rows, i) ==
    IF i >= Len(tier_rows) THEN Rat(0, 1)
    ELSE Rat(tier_rows[i + 1].best_back, tier_rows[i].best_back)

RECURSIVE TierMax(_, _)
TierMax(tier_rows, i) ==
    IF i >= Len(tier_rows) THEN Rat(0, 1)
    ELSE RatMax(Rat(tier_rows[i + 1].best_back, tier_rows[i].best_back),
                TierMax(tier_rows, i + 1))

compute_market_structure_metrics(rows, anchor_top_n, soup_top_k, tier_top_region) ==
    LET priced == Priced(rows) IN
    [runner_count |-> Len(rows),
     priced_runner_count |-> Len(priced),
     top_n_implied_sum |-> ImpliedSum(Take(priced, anchor_top_n)),
     soup_band_ratio |-> soup_band_ratio(Take(priced, soup_top_k)),
     tier_max_adjacent_ratio |-> TierMax(Take(priced, tier_top_region), 1)]

-----------------------------------------------------------------------------
(* Selection (stage 2): markets/structure_metrics.py *)

RunnerSelectionRow(r, idx, band, st, dt, reason, tag) ==
    [runner |-> r, price_rank |-> idx, band |-> band, spread_ticks |-> st,
     distance_ticks |-> dt, reason |-> reason, rank_tag |-> tag]

\* key best_back or 9999.0
PriceKeyLess(a, b) ==
    LET ka == IF a.best_back = NoPrice \/ a.best_back = 0 THEN NoneLast ELSE a.best_back
        kb == IF b.best_back = NoPrice \/ b.best_back = 0 THEN NoneLast ELSE b.best_back
    IN  ka < kb

\* rows for every runner of the ladder, priced or not
selection_rows_All(ldr) == StableSort(ldr, PriceKeyLess)

\* rows: the priced runners of the ladder, by price
selection_rows(ldr) == StableSort(Priced(ldr), PriceKeyLess)

anchored_ok(m, c) ==
    RatGE(m.top_n_implied_sum, c.selection.secondary_band.requires_top_n_implied_at_least)

\* the midpoint whatever target_price is configured
band_target2_Midpoint(band) == band.min + band.max

\* twice the band's target: target_price, or the midpoint (min + max) / 2
band_target2(band) ==
    IF band.target_price = NoPrice THEN band.min + band.max ELSE 2 * band.target_price

top_excluded(idx, c) ==
    c.selection.rank_exclusion.top_n > 0 /\ idx <= c.selection.rank_exclusion.top_n

\* a bottom exclusion one rank short
bottom_excluded_OffByOne(idx, total, c) ==
    c.selection.rank_exclusion.bottom_n > 0 /\ (total - idx) < c.selection.rank_exclusion.bottom_n - 1

bottom_excluded(idx, total, c) ==
    c.selection.rank_exclusion.bottom_n > 0 /\ (total - idx) < c.selection.rank_exclusion.bottom_n

rank_tag(idx, total, c) ==
    IF top_excluded(idx, c) THEN "excluded: top"
    ELSE IF bottom_excluded(idx, total, c) THEN "excluded: bottom"
    ELSE "none"

missing_back_lay(r) == r.best_back = NoPrice \/ r.best_lay = NoPrice

hard_band_back_ok(r, c) ==
    c.selection.hard_band.min <= r.best_back /\ r.best_back <= c.selection.hard_band.max

\* a hard band applied to the back price alone
hard_band_lay_ok_BackOnly(r, c) == hard_band_back_ok(r, c)

hard_band_lay_ok(r, c) ==
    c.selection.hard_band.min <= r.best_lay /\ r.best_lay <= c.selection.hard_band.max

spread_gate_ok(st, c) == st # NoInt /\ st <= c.selection.max_spread_ticks

in_primary(r, c) ==
    c.selection.primary_band.min <= r.best_back /\ r.best_back <= c.selection.primary_band.max

in_secondary(r, c) ==
    c.selection.secondary_band.min <= r.best_back /\ r.best_back <= c.selection.secondary_band.max

\* a secondary band open whatever the anchor sum
secondary_allowed_Unanchored(r, c, anch) == in_secondary(r, c)

secondary_allowed(r, c, anch) == anch /\ in_secondary(r, c)

structural_band(r, c, anch) ==
    IF in_primary(r, c) THEN "PRIMARY"
    ELSE IF in_secondary(r, c) /\ anch THEN "SECONDARY"
    ELSE "HARD"

\* one pass of the loop body: the audit row of runner r at price rank idx,
\* and the pool it is appended to
classify_runner(r, idx, total, c, anch) ==
    LET st == spread_ticks(r)
        tag == rank_tag(idx, total, c)
        rejected(band, reason) ==
            [row |-> RunnerSelectionRow(r, idx, band, st, NoInt, reason, tag), pool |-> "none"]
    IN  IF missing_back_lay(r) THEN rejected("-", "missing back/lay")
        ELSE IF ~hard_band_back_ok(r, c) THEN rejected("-", "outside hard band")
        ELSE IF ~hard_band_lay_ok(r, c) THEN rejected("-", "outside hard band (lay)")
        ELSE IF ~spread_gate_ok(st, c) THEN rejected(structural_band(r, c, anch), "spread")
        ELSE IF top_excluded(idx, c) THEN rejected("HARD", "excluded: top")
        ELSE IF bottom_excluded(idx, total, c) THEN rejected("HARD", "excluded: bottom")
        ELSE IF in_primary(r, c)
        THEN [row |-> RunnerSelectionRow(r, idx, "PRIMARY", st,
                          distance_ticks(r.best_back, band_target2(c.selection.primary_band)),
                          "in primary band", tag),
              pool |-> "primary"]
        ELSE IF secondary_allowed(r, c, anch)
        THEN [row |-> RunnerSelectionRow(r, idx, "SECONDARY", st,
                          distance_ticks(r.best_back, band_target2(c.selection.secondary_band)),
                          "secondary allowed (anchored)", tag),
              pool |-> "secondary"]
        ELSE IF in_secondary(r, c) /\ ~anch
        THEN rejected("HARD", "secondary not allowed (anchoring)")
        ELSE rejected("HARD", "not in allowed band")

\* _order_key(row): (spread_ticks, distance_ticks, best_back), None as 9999
order_key(row) ==
    << IF row.spread_ticks # NoInt THEN row.spread_ticks ELSE FarAway,
       IF row.distance_ticks # NoInt THEN row.distance_ticks ELSE FarAway,
       IF row.runner.best_back # NoPrice THEN row.runner.best_back ELSE NoneLast >>

\* an ordering by distance first, then spread
OrderKeyLess_DistanceFirst(a, b) ==
    LET ka == order_key(a)
        kb == order_key(b)
    IN  \/ ka[2] < kb[2]
        \/ (ka[2] = kb[2] /\ ka[1] < kb[1])
        \/ (ka[2] = kb[2] /\ ka[1] = kb[1] /\ ka[3] < kb[3])

OrderKeyLess(a, b) ==
    LET ka == order_key(a)
        kb == order_key(b)
    IN  \/ ka[1] < kb[1]
        \/ (ka[1] = kb[1] /\ ka[2] < kb[2])
        \/ (ka[1] = kb[1] /\ ka[2] = kb[2] /\ ka[3] < kb[3])

\* one pool of all eligible runners, the best of it chosen
choose_runner_OnePool(ep, es) ==
    IF ep \o es # <<>> THEN StableSort(ep \o es, OrderKeyLess)[1].runner ELSE NoRunner

\* among the best of the pool, the one of the highest price rank
choose_runner_LastTie(ep, es) ==
    LET pool == IF ep # <<>> THEN ep ELSE es IN
    IF pool = <<>> THEN NoRunner
    ELSE pool[CHOOSE i \in 1..Len(pool) :
                  /\ \A j \in 1..Len(pool) : ~OrderKeyLess(pool[j], pool[i])
                  /\ \A j \in (i + 1)..Len(pool) : OrderKeyLess(pool[i], pool[j])].runner

\* primary first, then secondary
choose_runner(ep, es) ==
    IF ep # <<>> THEN StableSort(ep, OrderKeyLess)[1].runner
    ELSE IF es # <<>> THEN StableSort(es, OrderKeyLess)[1].runner
    ELSE NoRunner

IsPrimaryEntry(x) == x.pool = "primary"
IsSecondaryEntry(x) == x.pool = "secondary"

Classified(ldr, m, c) ==
    LET rows == selection_rows(ldr) IN
    [i \in 1..Len(rows) |-> classify_runner(rows[i], i, Len(rows), c, anchored_ok(m, c))]

RowsOf(entries) == [i \in 1..Len(entries) |-> entries[i].row]

-----------------------------------------------------------------------------
(* Rule evaluation: markets/market_rules.py *)

RuleResult(ok, label, detail) == [ok |-> ok, label |-> label, detail |-> detail]

\* a label is its fixed text and the integer formatted into it (NoInt: none)
Label(text, arg) == [text |-> text, arg |-> arg]

\* _get(cfg_dict, ["structure_gates", gate, key], default): cfg.dict() is a
\* nested dict; cfg.__dict__ of a dataclass holds the structure_gates object,
\* which is no dict, so the default is returned
GetGate(c, gate, key, default) ==
    IF c.has_dict THEN c.structure_gates[gate][key] ELSE default

RegionIndexByKey(c, cc) ==
    {i \in 1..Len(c.regions) : c.regions[i].code = cc}

RegionIndexByCountry(c, cc) ==
    {i \in 1..Len(c.regions) :
        \E k \in 1..Len(c.regions[i].market_countries) :
            Upper(c.regions[i].market_countries[k]) = cc}

region_for_country(c, ctry) ==
    IF ctry = NoneStr \/ ctry = "" THEN NoneStr
    ELSE LET cc == Upper(ctry) IN
         IF RegionIndexByKey(c, cc) # {} THEN cc
         ELSE IF RegionIndexByCountry(c, cc) # {}
         THEN c.regions[MinOf(RegionIndexByCountry(c, cc))].code
         ELSE NoneStr

RegionOf(c, code) == c.regions[MinOf(RegionIndexByKey(c, code))]

\* region override, else the global default
resolve_runner_range(c, code) ==
    IF RegionOf(c, code).runner_range # <<>>
    THEN RegionOf(c, code).runner_range
    ELSE c.defaults.runner_range

resolve_liquidity_min(c, code) ==
    IF RegionOf(c, code).liquidity_min # NoInt
    THEN RegionOf(c, code).liquidity_min
    ELSE c.defaults.liquidity_min

Truthy(s) == s # NoneStr /\ s # ""

CountryResult(c, ctry, rc) ==
    IF ~Truthy(ctry) THEN RuleResult(FALSE, Label("Country", NoInt), "missing event.countryCode")
    ELSE IF ~Truthy(rc) THEN RuleResult(FALSE, Label("Country", NoInt), "not in any configured region")
    ELSE RuleResult(TRUE, Label("Country", NoInt), RegionOf(c, rc).name)

\* a field size counted over the priced runners
runner_ok_PricedCount(c, m, rc) ==
    /\ Truthy(rc)
    /\ resolve_runner_range(c, rc)[1] <= m.priced_runner_count
    /\ m.priced_runner_count <= resolve_runner_range(c, rc)[2]

runner_ok(c, m, rc) ==
    /\ Truthy(rc)
    /\ resolve_runner_range(c, rc)[1] <= m.runner_count
    /\ m.runner_count <= resolve_runner_range(c, rc)[2]

liquidity_ok(c, tm, rc) ==
    /\ Truthy(rc)
    /\ (IF tm = NoInt THEN 0 ELSE tm) >= resolve_liquidity_min(c, rc)

\* a short-circuiting evaluator: nothing is listed for the skipped checks
RegionResults_ShortCircuit(c, m, tm, rc) ==
    IF Truthy(rc)
    THEN << RuleResult(runner_ok(c, m, rc), Label("Field size", NoInt), "in range"),
            RuleResult(liquidity_ok(c, tm, rc), Label("Liquidity", NoInt), "at least") >>
    ELSE <<>>

RegionResults(c, m, tm, rc) ==
    IF Truthy(rc)
    THEN << RuleResult(runner_ok(c, m, rc), Label("Field size", NoInt), "in range"),
            RuleResult(liquidity_ok(c, tm, rc), Label("Liquidity", NoInt), "at least") >>
    ELSE << RuleResult(FALSE, Label("Field size", NoInt), "skipped (no region resolved)"),
            RuleResult(FALSE, Label("Liquidity", NoInt), "skipped (no region resolved)") >>

anchor_ok(c, m) ==
    RatGE(m.top_n_implied_sum, Rat(GetGate(c, "anchor", "min_top_implied", 650), 1000))

\* a soup gate that passes on equality, as the anchor and tier gates do
soup_ok_AtLeast(c, m) ==
    RatGE(m.soup_band_ratio, Rat(GetGate(c, "soup", "max_band_ratio", 1200), 1000))

soup_ok(c, m) ==
    RatGT(m.soup_band_ratio, Rat(GetGate(c, "soup", "max_band_ratio", 1200), 1000))

tier_ok(c, m) ==
    RatGE(m.tier_max_adjacent_ratio, Rat(GetGate(c, "tier", "min_jump_ratio", 1250), 1000))

StructureResults(c, m) ==
    << RuleResult(anchor_ok(c, m), Label("Anchor", GetGate(c, "anchor", "top_n", 3)), "at least"),
       RuleResult(soup_ok(c, m), Label("Soup", GetGate(c, "soup", "top_k", 5)), "greater"),
       RuleResult(tier_ok(c, m), Label("Tier", GetGate(c, "tier", "top_region", 6)), "at least") >>

\* an evaluator that fails the structure gates unseen once no region resolved
RuleResults_GatesNeedRegion(c, ctry, m, tm, rc) ==
    <<CountryResult(c, ctry, rc)>> \o RegionResults(c, m, tm, rc) \o
    (IF Truthy(rc) THEN StructureResults(c, m)
     ELSE [i \in 1..3 |-> [StructureResults(c, m)[i] EXCEPT !.ok = FALSE]])

RuleResults(c, ctry, m, tm, rc) ==
    <<CountryResult(c, ctry, rc)>> \o RegionResults(c, m, tm, rc) \o StructureResults(c, m)

country_ok(ctry, rc) == Truthy(ctry) /\ Truthy(rc)

\* a verdict that forgets the soup gate
Accepted_NoSoup(c, ctry, m, tm, rc) ==
    /\ country_ok(ctry, rc)
    /\ runner_ok(c, m, rc)
    /\ liquidity_ok(c, tm, rc)
    /\ anchor_ok(c, m)
    /\ tier_ok(c, m)

Accepted(c, ctry, m, tm, rc) ==
    /\ country_ok(ctry, rc)
    /\ runner_ok(c, m, rc)
    /\ liquidity_ok(c, tm, rc)
    /\ anchor_ok(c, m)
    /\ soup_ok(c, m)
    /\ tier_ok(c, m)

-----------------------------------------------------------------------------
(* Inputs of the rule evaluation *)

RegionCodes == {"GB", "IE", "EU"}
CountryLists == {<<"GB">>, <<"gb", "IE">>, <<"FR">>}

\* a region: the IE region overrides the runner range and the liquidity minimum
Region(code, mc) ==
    [code |-> code, name |-> code, market_countries |-> mc,
     runner_range |-> IF code = "IE" THEN <<2, 4>> ELSE <<>>,
     liquidity_min |-> IF code = "IE" THEN 20000 ELSE NoInt]

RegionRecords == {Region(code, mc) : code \in RegionCodes, mc \in CountryLists}

\* dicts of 1..MaxRegions regions in insertion order, keys distinct
RegionMaps ==
    UNION {{s \in [1..k -> RegionRecords] :
                \A i, j \in 1..k : i # j => s[i].code # s[j].code} : k \in 1..MaxRegions}

ConfiguredGates ==
    [anchor |-> [top_n |-> 2, min_top_implied |-> 700],
     soup |-> [top_k |-> 4, max_band_ratio |-> 1500],
     tier |-> [top_region |-> 5, min_jump_ratio |-> 1100]]

GlobalDefaults == [runner_range |-> <<5, 12>>, liquidity_min |-> 50000]

NoSelection ==
    [hard_band |-> [min |-> 0, max |-> 0],
     primary_band |-> [min |-> 0, max |-> 0, target_price |-> NoPrice],
     secondary_band |-> [min |-> 0, max |-> 0, target_price |-> NoPrice,
                         requires_top_n_implied_at_least |-> Rat(0, 1)],
     max_spread_ticks |-> 0,
     rank_exclusion |-> [top_n |-> 0, bottom_n |-> 0]]

CountryCodes == {NoneStr, "", " ", "GB", " gb ", "ie", "FR", "EU", "XX"}
TotalMatchedValues == {NoInt, 20000, 50000}
RunnerCounts == {4, 5, 13}
AnchorValues == {Rat(649, 1000), Rat(700, 1000)}
SoupValues == {Rat(1200, 1000), Rat(1500, 1000), Rat(1501, 1000)}
TierValues == {Rat(0, 1), Rat(1100, 1000), Rat(1250, 1000)}

\* nothing fetched, nothing re-run, no tick computed
AuxIdle ==
    /\ rerun_selected = NoRunner
    /\ rerun_debug = <<>>
    /\ cat = <<>>
    /\ rpc_book = <<>>
    /\ p1 = NoPrice
    /\ p2 = NoPrice
    /\ t1 = NoInt
    /\ t2 = NoInt
    /\ tick_count = NoInt
    /\ walk_cur = NoPrice
    /\ walk_iter = 0

NoMetrics ==
    [runner_count |-> 0, priced_runner_count |-> 0, top_n_implied_sum |-> Rat(0, 1),
     soup_band_ratio |-> Rat(0, 1), tier_max_adjacent_ratio |-> Rat(0, 1)]

InitRules ==
    /\ pc = "rules"
    /\ \E r \in RegionMaps, hd \in BOOLEAN :
          cfg = [regions |-> r, has_dict |-> hd, structure_gates |-> ConfiguredGates,
                 defaults |-> GlobalDefaults, selection |-> NoSelection]
    /\ country \in CountryCodes
    /\ total_matched \in TotalMatchedValues
    /\ \E rc \in RunnerCounts, a \in AnchorValues, s \in SoupValues, t \in TierValues :
          metrics = [runner_count |-> rc, priced_runner_count |-> rc,
                     top_n_implied_sum |-> a, soup_band_ratio |-> s,
                     tier_max_adjacent_ratio |-> t]
    /\ book = <<>>
    /\ ladders = <<>>
    /\ accepted = FALSE
    /\ region_code = NoneStr
    /\ results = <<>>
    /\ selected = NoRunner
    /\ debug = <<>>
    /\ eligible_primary = <<>>
    /\ eligible_secondary = <<>>
    /\ AuxIdle

\* evaluate_market_rules(market_catalogue, market_book, metrics, cfg)
EvaluateMarketRules ==
    /\ pc = "rules"
    /\ LET rc == region_for_country(cfg, country) IN
          /\ region_code' = rc
          /\ results' = RuleResults(cfg, country, metrics, total_matched, rc)
          /\ accepted' = Accepted(cfg, country, metrics, total_matched, rc)
    /\ pc' = "verdict"
    /\ UNCHANGED <<cfg, country, total_matched, book, ladders, metrics, selected,
                   debug, eligible_primary, eligible_secondary, auxvars>>

NextRules == EvaluateMarketRules

SpecRules == InitRules /\ [][NextRules]_vars

-----------------------------------------------------------------------------
(* Ladder build, metrics and selection on a book snapshot *)

\* (status, best back offer, best lay offer) of a book runner
Quotes ==
    { <<"ACTIVE", <<150>>, <<151>>>>,
      <<"ACTIVE", <<320>>, <<330>>>>,
      <<"ACTIVE", <<340>>, <<345>>>>,
      <<"ACTIVE", <<360>>, <<365>>>>,
      <<"ACTIVE", <<500>>, <<510>>>>,
      <<"ACTIVE", <<500>>, <<560>>>>,
      <<"ACTIVE", <<600>>, <<620>>>>,
      <<"ACTIVE", <<300>>, <<>>>>,
      <<"ACTIVE", <<>>, <<>>>>,
      <<"REMOVED", <<340>>, <<345>>>> }

BookRunner(sid, q) ==
    [selectionId |-> sid, status |-> q[1], availableToBack |-> q[2], availableToLay |-> q[3]]

Books ==
    UNION {{[i \in 1..k |-> BookRunner(i, qs[i])] : qs \in [1..k -> Quotes]} : k \in 0..MaxRunners}

SelectionConfigs ==
    {[hard_band |-> [min |-> 200, max |-> 600],
      primary_band |-> [min |-> 300, max |-> 400, target_price |-> t],
      secondary_band |-> [min |-> 340, max |-> 600, target_price |-> NoPrice,
                          requires_top_n_implied_at_least |-> a],
      max_spread_ticks |-> 3,
      rank_exclusion |-> [top_n |-> tn, bottom_n |-> bn]] :
        t \in {NoPrice, 320}, a \in {Rat(50, 100), Rat(90, 100)},
        tn \in {0, 1}, bn \in {0, 1}}

InitSelect ==
    /\ pc = "book"
    /\ book \in Books
    /\ \E sel \in SelectionConfigs :
          cfg = [regions |-> <<>>, has_dict |-> TRUE, structure_gates |-> ConfiguredGates,
                 defaults |-> GlobalDefaults, selection |-> sel]
    /\ country = NoneStr
    /\ total_matched = NoInt
    /\ metrics = NoMetrics
    /\ ladders = <<>>
    /\ accepted = FALSE
    /\ region_code = NoneStr
    /\ results = <<>>
    /\ selected = NoRunner
    /\ debug = <<>>
    /\ eligible_primary = <<>>
    /\ eligible_secondary = <<>>
    /\ AuxIdle

BuildRunnerLadders ==
    /\ pc = "book"
    /\ ladders' = build_runner_ladders(book)
    /\ pc' = "ladder"
    /\ UNCHANGED <<cfg, country, total_matched, book, metrics, accepted, region_code,
                   results, selected, debug, eligible_primary, eligible_secondary, auxvars>>

ComputeMarketStructureMetrics ==
    /\ pc = "ladder"
    /\ metrics' = compute_market_structure_metrics(ladders,
                      cfg.structure_gates.anchor.top_n,
                      cfg.structure_gates.soup.top_k,
                      cfg.structure_gates.tier.top_region)
    /\ pc' = "metrics"
    /\ UNCHANGED <<cfg, country, total_matched, book, ladders, accepted, region_code,
                   results, selected, debug, eligible_primary, eligible_secondary, auxvars>>

\* select_candidate_runner(ladders, metrics, cfg); the loop's rows and the two
\* pools are bound once, as the locals they are
SelectCandidateRunner ==
    /\ pc = "metrics"
    /\ \E entries \in {Classified(ladders, metrics, cfg)} :
       \E ep \in {RowsOf(SelectSeq(entries, IsPrimaryEntry))} :
       \E es \in {RowsOf(SelectSeq(entries, IsSecondaryEntry))} :
           /\ debug' = RowsOf(entries)
           /\ eligible_primary' = ep
           /\ eligible_secondary' = es
           /\ selected' = choose_runner(ep, es)
    /\ pc' = "selected"
    /\ UNCHANGED <<cfg, country, total_matched, book, ladders, metrics, accepted,
                   region_code, results, auxvars>>

NextSelect == BuildRunnerLadders \/ ComputeMarketStructureMetrics \/ SelectCandidateRunner

SpecSelect == InitSelect /\ [][NextSelect]_vars

-----------------------------------------------------------------------------
(* Selection under a configuration that carries field-size-keyed rules *)

\* a rank-exclusion rule list, ascending by max_field_size
RankRuleLists ==
    { <<>>,
      << [max_field_size |-> 2, top_n |-> 1, bottom_n |-> 0] >>,
      << [max_field_size |-> 1, top_n |-> 0, bottom_n |-> 0],
         [max_field_size |-> 3, top_n |-> 0, bottom_n |-> 1] >> }

RankRuleQuotes ==
    { <<"ACTIVE", <<320>>, <<330>>>>,
      <<"ACTIVE", <<340>>, <<345>>>>,
      <<"ACTIVE", <<500>>, <<510>>>>,
      <<"ACTIVE", <<>>, <<>>>> }

RankRuleBooks ==
    UNION {{[i \in 1..k |-> BookRunner(i, qs[i])] : qs \in [1..k -> RankRuleQuotes]} :
              k \in 0..MaxRunners}

RankRuleConfigs ==
    {[hard_band |-> [min |-> 200, max |-> 600],
      primary_band |-> [min |-> 300, max |-> 400, target_price |-> NoPrice],
      secondary_band |-> [min |-> 340, max |-> 600, target_price |-> NoPrice,
                          requires_top_n_implied_at_least |-> Rat(50, 100)],
      max_spread_ticks |-> 3,
      rank_exclusion |-> [top_n |-> tn, bottom_n |-> 0, rules |-> rl]] :
        tn \in {0, 1}, rl \in RankRuleLists}

InitRankRules ==
    /\ pc = "book"
    /\ book \in RankRuleBooks
    /\ \E sel \in RankRuleConfigs :
          cfg = [regions |-> <<>>, has_dict |-> TRUE, structure_gates |-> ConfiguredGates,
                 defaults |-> GlobalDefaults, selection |-> sel]
    /\ country = NoneStr
    /\ total_matched = NoInt
    /\ metrics = NoMetrics
    /\ ladders = <<>>
    /\ accepted = FALSE
    /\ region_code = NoneStr
    /\ results = <<>>
    /\ selected = NoRunner
    /\ debug = <<>>
    /\ eligible_primary = <<>>
    /\ eligible_secondary = <<>>
    /\ AuxIdle

SpecRankRules == InitRankRules /\ [][NextSelect]_vars

-----------------------------------------------------------------------------
(* Tick helpers applied to prices *)

\* prices below the lowest band, on and beside the band boundaries, and above
\* the highest band
TickPrices ==
    {50, 100, 101, 150, 155, 198, 199, 200, 201, 202, 300, 305, 400, 410, 600, 620,
     1000, 1050, 2000, 2100, 3000, 3200, 5000, 5500, 10000, 11000, 100000, 100001,
     100010, 110002}

marketvars == <<cfg, country, total_matched, book, ladders, metrics, accepted,
                region_code, results, selected, debug, eligible_primary, eligible_secondary>>

\* no market under evaluation
MarketIdle ==
    /\ cfg = [regions |-> <<>>, has_dict |-> TRUE, structure_gates |-> ConfiguredGates,
              defaults |-> GlobalDefaults, selection |-> NoSelection]
    /\ country = NoneStr
    /\ total_matched = NoInt
    /\ book = <<>>
    /\ ladders = <<>>
    /\ metrics = NoMetrics
    /\ accepted = FALSE
    /\ region_code = NoneStr
    /\ results = <<>>
    /\ selected = NoRunner
    /\ debug = <<>>
    /\ eligible_primary = <<>>
    /\ eligible_secondary = <<>>

InitTicks ==
    /\ pc = "prices"
    /\ p1 \in TickPrices
    /\ p2 \in TickPrices
    /\ t1 = NoInt
    /\ t2 = NoInt
    /\ tick_count = NoInt
    /\ walk_cur = NoPrice
    /\ walk_iter = 0
    /\ rerun_selected = NoRunner
    /\ rerun_debug = <<>>
    /\ cat = <<>>
    /\ rpc_book = <<>>
    /\ MarketIdle

\* tick_size(price), for each of the two prices
TickSize ==
    /\ pc = "prices"
    /\ t1' = tick_size(p1)
    /\ t2' = tick_size(p2)
    /\ pc' = "ticked"
    /\ UNCHANGED <<marketvars, rerun_selected, rerun_debug, cat, rpc_book, p1, p2,
                   tick_count, walk_cur, walk_iter>>

\* an early return for a lay strictly below the back only
TicksBetween_StrictlyBelow ==
    /\ pc = "ticked"
    /\ IF p2 < p1
       THEN /\ tick_count' = 0
            /\ pc' = "walked"
            /\ UNCHANGED walk_cur
       ELSE /\ tick_count' = 0
            /\ walk_cur' = p1
            /\ pc' = "walking"
    /\ UNCHANGED <<marketvars, rerun_selected, rerun_debug, cat, rpc_book, p1, p2, t1, t2,
                   walk_iter>>

\* ticks_between(back, lay) up to its loop: 0 for lay <= back, else the walk
\* starts at back
TicksBetween ==
    /\ pc = "ticked"
    /\ IF p2 <= p1
       THEN /\ tick_count' = 0
            /\ pc' = "walked"
            /\ UNCHANGED walk_cur
       ELSE /\ tick_count' = 0
            /\ walk_cur' = p1
            /\ pc' = "walking"
    /\ UNCHANGED <<marketvars, rerun_selected, rerun_debug, cat, rpc_book, p1, p2, t1, t2,
                   walk_iter>>

\* a walk with no bound on its iterations
TickStep_Unbounded ==
    /\ pc = "walking"
    /\ tick_count' = tick_count + 1
    /\ walk_iter' = walk_iter + 1
    /\ IF walk_cur + tick_size(walk_cur) >= p2
       THEN pc' = "walked" /\ UNCHANGED walk_cur
       ELSE pc' = "walking" /\ walk_cur' = walk_cur + tick_size(walk_cur)
    /\ UNCHANGED <<marketvars, rerun_selected, rerun_debug, cat, rpc_book, p1, p2, t1, t2>>

\* one iteration of for _ in range(10000), or the return after the last one
TickStep ==
    /\ pc = "walking"
    /\ IF walk_iter = MaxTickSteps
       THEN /\ pc' = "walked"
            /\ UNCHANGED <<tick_count, walk_cur, walk_iter>>
       ELSE /\ tick_count' = tick_count + 1
            /\ walk_iter' = walk_iter + 1
            /\ IF walk_cur + tick_size(walk_cur) >= p2
               THEN pc' = "walked" /\ UNCHANGED walk_cur
               ELSE pc' = "walking" /\ walk_cur' = walk_cur + tick_size(walk_cur)
    /\ UNCHANGED <<marketvars, rerun_selected, rerun_debug, cat, rpc_book, p1, p2, t1, t2>>

NextTicks == TickSize \/ TicksBetween \/ TickStep

SpecTicks == InitTicks /\ [][NextTicks]_vars

\* a call that has started runs on: each statement is followed by the next
SpecTicksFair == SpecTicks /\ WF_vars(NextTicks)

-----------------------------------------------------------------------------
(* Inspection of one market: scripts/inspect_market_structure.py *)

\* the branch of inspect_one_market that runs the selection
selection_runs_Always(acc) == TRUE

selection_runs(acc) == acc

ScenarioGates ==
    [anchor |-> [top_n |-> 3, min_top_implied |-> 650],
     soup |-> [top_k |-> 5, max_band_ratio |-> 1200],
     tier |-> [top_region |-> 6, min_jump_ratio |-> 1250]]

PipelineSelection ==
    [hard_band |-> [min |-> 200, max |-> 600],
     primary_band |-> [min |-> 300, max |-> 400, target_price |-> NoPrice],
     secondary_band |-> [min |-> 340, max |-> 600, target_price |-> NoPrice,
                         requires_top_n_implied_at_least |-> Rat(50, 100)],
     max_spread_ticks |-> 3,
     rank_exclusion |-> [top_n |-> 1, bottom_n |-> 1]]

PipelineConfigs ==
    {[regions |-> << Region("GB", <<"GB">>), Region("IE", <<"IE">>) >>, has_dict |-> hd,
      structure_gates |-> g,
      defaults |-> GlobalDefaults, selection |-> PipelineSelection] :
        hd \in BOOLEAN, g \in {ScenarioGates, ConfiguredGates}}

\* best back prices of the ACTIVE runners of a book, NoPrice for no offer
PipelineFields ==
    { <<150, 200, 350, 500, 800, 1200, 2000, 4000>>,
      <<4000, 2000, 1200, 800, 500, 350, 200, 150>>,
      <<150, 155, 160, 165, 170, 1200, 2000, 4000>>,
      <<150, 160, 170, 180, 190, 200, 210, 220>>,
      <<150, 160, 170, 175, 180, 1200, 2000, 4000>>,
      <<200, 250, 300, 360, 430, 500, 4000, 4100>>,
      <<250, 400, NoPrice, NoPrice, NoPrice>>,
      <<100, 150, 200, 350, 500>>,
      <<150, NoPrice, NoPrice, NoPrice, NoPrice>>,
      <<NoPrice, NoPrice, NoPrice, NoPrice, NoPrice>>,
      <<150, 200, 350, 500>>,
      <<150, 200, 350>>,
      <<150, 200>>,
      <<150>>,
      <<>> }

\* a runner offered at back and one tick above, or with no offers
FieldRunner(sid, back) ==
    BookRunner(sid, <<"ACTIVE",
                      IF back = NoPrice THEN <<>> ELSE <<back>>,
                      IF back = NoPrice THEN <<>> ELSE <<back + tick_size(back)>>>>)

\* the runners of a field, after a withdrawn runner when there is one
FieldBook(backs, withdrawn) ==
    (IF withdrawn THEN << BookRunner(0, <<"REMOVED", <<300>>, <<305>>>>) >> ELSE <<>>)
        \o [i \in 1..Len(backs) |-> FieldRunner(i, backs[i])]

PipelineBooks == {FieldBook(backs, w) : backs \in PipelineFields, w \in BOOLEAN}

CatalogueAnswers == {<<>>} \cup {<<[countryCode |-> c]>> : c \in {NoneStr, "GB", "IE", "XX"}}

BookAnswers ==
    {<<>>} \cup {<<[runners |-> b, totalMatched |-> tm]>> :
                    b \in PipelineBooks, tm \in {20000, 50000}}

InitPipeline ==
    /\ pc = "start"
    /\ cfg \in PipelineConfigs
    /\ country = NoneStr
    /\ total_matched = NoInt
    /\ book = <<>>
    /\ ladders = <<>>
    /\ metrics = NoMetrics
    /\ accepted = FALSE
    /\ region_code = NoneStr
    /\ results = <<>>
    /\ selected = NoRunner
    /\ debug = <<>>
    /\ eligible_primary = <<>>
    /\ eligible_secondary = <<>>
    /\ AuxIdle

\* cat = client.rpc("listMarketCatalogue", ...): an empty answer ends the
\* inspection
ListMarketCatalogue ==
    /\ pc = "start"
    /\ \E answer \in CatalogueAnswers :
          /\ cat' = answer
          /\ IF answer = <<>>
             THEN pc' = "returned" /\ UNCHANGED country
             ELSE pc' = "catalogue" /\ country' = answer[1].countryCode
    /\ UNCHANGED <<cfg, total_matched, book, ladders, metrics, accepted, region_code,
                   results, selected, debug, eligible_primary, eligible_secondary,
                   rerun_selected, rerun_debug, rpc_book, p1, p2, t1, t2, tick_count,
                   walk_cur, walk_iter>>

\* book = client.rpc("listMarketBook", ...): an empty answer ends the inspection
ListMarketBook ==
    /\ pc = "catalogue"
    /\ \E answer \in BookAnswers :
          /\ rpc_book' = answer
          /\ IF answer = <<>>
             THEN pc' = "returned" /\ UNCHANGED <<book, total_matched>>
             ELSE /\ pc' = "book"
                  /\ book' = answer[1].runners
                  /\ total_matched' = answer[1].totalMatched
    /\ UNCHANGED <<cfg, country, ladders, metrics, accepted, region_code,
                   results, selected, debug, eligible_primary, eligible_secondary,
                   rerun_selected, rerun_debug, cat, p1, p2, t1, t2, tick_count,
                   walk_cur, walk_iter>>

\* ladders and metrics, always built, then evaluate_market_rules
EvaluateMarket ==
    /\ pc = "book"
    /\ \E ldr \in {build_runner_ladders(book)} :
       \E m \in {compute_market_structure_metrics(ldr,
                     cfg.structure_gates.anchor.top_n,
                     cfg.structure_gates.soup.top_k,
                     cfg.structure_gates.tier.top_region)} :
       \E rc \in {region_for_country(cfg, country)} :
           /\ ladders' = ldr
           /\ metrics' = m
           /\ region_code' = rc
           /\ results' = RuleResults(cfg, country, m, total_matched, rc)
           /\ accepted' = Accepted(cfg, country, m, total_matched, rc)
    /\ pc' = "verdict"
    /\ UNCHANGED <<cfg, country, total_matched, book, selected, debug, eligible_primary,
                   eligible_secondary, auxvars>>

\* if not accepted: the ladder is shown and no runner is considered
RejectMarket ==
    /\ pc = "verdict"
    /\ ~selection_runs(accepted)
    /\ pc' = "rejected"
    /\ UNCHANGED <<marketvars, auxvars>>

\* else: select_candidate_runner(ladders, metrics, cfg)
SelectOnAccepted ==
    /\ pc = "verdict"
    /\ selection_runs(accepted)
    /\ \E entries \in {Classified(ladders, metrics, cfg)} :
       \E ep \in {RowsOf(SelectSeq(entries, IsPrimaryEntry))} :
       \E es \in {RowsOf(SelectSeq(entries, IsSecondaryEntry))} :
           /\ debug' = RowsOf(entries)
           /\ eligible_primary' = ep
           /\ eligible_secondary' = es
           /\ selected' = choose_runner(ep, es)
    /\ pc' = "selected"
    /\ UNCHANGED <<cfg, country, total_matched, book, ladders, metrics, accepted,
                   region_code, results, auxvars>>

NextPipeline ==
    \/ ListMarketCatalogue
    \/ ListMarketBook
    \/ EvaluateMarket
    \/ RejectMarket
    \/ SelectOnAccepted

SpecPipeline == InitPipeline /\ [][NextPipeline]_vars

-----------------------------------------------------------------------------
(* Selection run twice on the same ladder, metrics and configuration *)

RerunQuotes ==
    { <<"ACTIVE", <<150>>, <<151>>>>,
      <<"ACTIVE", <<340>>, <<345>>>>,
      <<"ACTIVE", <<360>>, <<365>>>>,
      <<"ACTIVE", <<500>>, <<510>>>> }

RerunBooks ==
    UNION {{[i \in 1..k |-> BookRunner(i, qs[i])] : qs \in [1..k -> RerunQuotes]} :
              k \in 0..MaxRunners}

InitRerun ==
    /\ pc = "book"
    /\ book \in RerunBooks
    /\ \E sel \in SelectionConfigs :
          cfg = [regions |-> <<>>, has_dict |-> TRUE, structure_gates |-> ConfiguredGates,
                 defaults |-> GlobalDefaults, selection |-> sel]
    /\ country = NoneStr
    /\ total_matched = NoInt
    /\ metrics = NoMetrics
    /\ ladders = <<>>
    /\ accepted = FALSE
    /\ region_code = NoneStr
    /\ results = <<>>
    /\ selected = NoRunner
    /\ debug = <<>>
    /\ eligible_primary = <<>>
    /\ eligible_secondary = <<>>
    /\ AuxIdle

\* select_candidate_runner(ladders, metrics, cfg) called a second time
SelectAgain ==
    /\ pc = "selected"
    /\ \E entries \in {Classified(ladders, metrics, cfg)} :
           /\ rerun_debug' = RowsOf(entries)
           /\ rerun_selected' = choose_runner(RowsOf(SelectSeq(entries, IsPrimaryEntry)),
                                              RowsOf(SelectSeq(entries, IsSecondaryEntry)))
    /\ pc' = "rerun"
    /\ UNCHANGED <<marketvars, cat, rpc_book, p1, p2, t1, t2, tick_count, walk_cur, walk_iter>>

NextRerun == NextSelect \/ SelectAgain

SpecRerun == InitRerun /\ [][NextRerun]_vars

-----------------------------------------------------------------------------
(* Properties of the rule evaluation *)

CheckOrder == <<"Country", "Field size", "Liquidity", "Anchor", "Soup", "Tier">>

\* C1: every verdict lists exactly six results, labelled Country, Field size,
\* Liquidity, Anchor, Soup, Tier in this order, whatever the earlier checks found.
C1_SixChecksInOrder ==
    pc = "verdict" =>
        /\ Len(results) = 6
        /\ \A i \in 1..6 : results[i].label.text = CheckOrder[i]

\* a market with an unmapped country still gets its structure gates listed
C1_Witness ==
    /\ pc = "verdict"
    /\ country = "XX"
    /\ Len(results) = 6
    /\ ~results[1].ok
    /\ results[4].ok

\* C2: accepted is true exactly when every listed result is ok.
C2_AcceptedIffAllOk ==
    pc = "verdict" => (accepted <=> \A i \in 1..Len(results) : results[i].ok)

\* a market that passes the other five checks and fails the soup gate alone
C2_Witness ==
    /\ pc = "verdict"
    /\ ~accepted
    /\ \A i \in {1, 2, 3, 4, 6} : results[i].ok
    /\ ~results[5].ok

CountrySet(r) == {Upper(r.market_countries[k]) : k \in 1..Len(r.market_countries)}

\* C3: a market resolves to region R, and passes Country, only if its country
\* code (case-insensitive) is in R's country set; a code in no region's country
\* set resolves to no region and fails Country.
C3_RegionByMembership ==
    pc = "verdict" =>
        /\ Truthy(region_code) =>
              Upper(country) \in CountrySet(RegionOf(cfg, region_code))
        /\ results[1].ok =>
              \E i \in 1..Len(cfg.regions) : Upper(country) \in CountrySet(cfg.regions[i])
        /\ (\A i \in 1..Len(cfg.regions) : Upper(country) \notin CountrySet(cfg.regions[i]))
              => (region_code = NoneStr /\ ~results[1].ok)

GateThreshold(gate, key, default) ==
    IF cfg.has_dict THEN cfg.structure_gates[gate][key] ELSE default

\* C4: with the country code absent or in no region, Country, Field size and
\* Liquidity fail (the last two as skipped), the market is not accepted, and
\* Anchor, Soup and Tier are decided by the metrics alone.
C4_NoRegionStillRunsGates ==
    (pc = "verdict" /\ (~Truthy(country) \/ ~Truthy(region_code))) =>
        /\ Len(results) = 6
        /\ ~results[1].ok /\ ~results[2].ok /\ ~results[3].ok
        /\ results[2].detail = "skipped (no region resolved)"
        /\ results[3].detail = "skipped (no region resolved)"
        /\ ~accepted
        /\ results[4].ok <=>
              metrics.top_n_implied_sum.n * 1000 >=
                  GateThreshold("anchor", "min_top_implied", 650) * metrics.top_n_implied_sum.d
        /\ results[5].ok <=>
              metrics.soup_band_ratio.n * 1000 >
                  GateThreshold("soup", "max_band_ratio", 1200) * metrics.soup_band_ratio.d
        /\ results[6].ok <=>
              metrics.tier_max_adjacent_ratio.n * 1000 >=
                  GateThreshold("tier", "min_jump_ratio", 1250) * metrics.tier_max_adjacent_ratio.d

\* a market without a country code whose three structure gates all pass
C4_Witness ==
    /\ pc = "verdict"
    /\ country = NoneStr
    /\ region_code = NoneStr
    /\ results[4].ok /\ results[5].ok /\ results[6].ok
    /\ ~accepted

-----------------------------------------------------------------------------
(* Properties of the selection *)

Sel == cfg.selection

\* ladder positions of the priced runners: the ladder is sorted by price with
\* the unpriced runners last, so a priced runner's position is its price rank
PricedPositions == {i \in 1..Len(ladders) : ladders[i].best_back # NoPrice}

SpreadOf(i) == ticks_between(ladders[i].best_back, ladders[i].best_lay)

Within(p, band) == band.min <= p /\ p <= band.max

RankExcludedAmong(r, n) ==
    r <= Sel.rank_exclusion.top_n \/ r > n - Sel.rank_exclusion.bottom_n

\* Phase A as the selection applies it: both prices, both in the hard band,
\* spread within the maximum, rank not excluded among the priced runners
PassesHardGates(i) ==
    /\ ladders[i].best_back # NoPrice
    /\ ladders[i].best_lay # NoPrice
    /\ Within(ladders[i].best_back, Sel.hard_band)
    /\ Within(ladders[i].best_lay, Sel.hard_band)
    /\ SpreadOf(i) <= Sel.max_spread_ticks
    /\ ~RankExcludedAmong(i, Cardinality(PricedPositions))

Anchored ==
    metrics.top_n_implied_sum.n * Sel.secondary_band.requires_top_n_implied_at_least.d >=
        Sel.secondary_band.requires_top_n_implied_at_least.n * metrics.top_n_implied_sum.d

PrimaryPool ==
    {i \in 1..Len(ladders) :
        PassesHardGates(i) /\ Within(ladders[i].best_back, Sel.primary_band)}

SecondaryPool ==
    {i \in 1..Len(ladders) :
        /\ PassesHardGates(i)
        /\ ~Within(ladders[i].best_back, Sel.primary_band)
        /\ Within(ladders[i].best_back, Sel.secondary_band)
        /\ Anchored}

SelectedFrom(pool) == \E i \in pool : selected = ladders[i]

\* C5: with a runner in the PRIMARY pool the selected runner is of the PRIMARY
\* pool; a SECONDARY runner is selected only with the PRIMARY pool empty; no
\* runner is selected exactly when both pools are empty.
C5_PrimaryPrecedesSecondary ==
    pc = "selected" =>
        /\ PrimaryPool # {} => SelectedFrom(PrimaryPool)
        /\ SelectedFrom(SecondaryPool) => PrimaryPool = {}
        /\ (PrimaryPool = {} /\ SecondaryPool # {}) => SelectedFrom(SecondaryPool)
        /\ selected = NoRunner <=> (PrimaryPool = {} /\ SecondaryPool = {})

\* a PRIMARY runner selected over a SECONDARY runner of smaller spread
C5_Witness ==
    /\ pc = "selected"
    /\ SelectedFrom(PrimaryPool)
    /\ \E i \in PrimaryPool, j \in SecondaryPool :
          selected = ladders[i] /\ SpreadOf(j) < SpreadOf(i)

TupleLess(a, b) ==
    \/ a.spread_ticks < b.spread_ticks
    \/ (a.spread_ticks = b.spread_ticks /\ a.distance_ticks < b.distance_ticks)
    \/ (a.spread_ticks = b.spread_ticks /\ a.distance_ticks = b.distance_ticks
            /\ a.runner.best_back < b.runner.best_back)

ChosenPool == IF eligible_primary # <<>> THEN eligible_primary ELSE eligible_secondary

\* C6: the selected runner is a lexicographic minimum of (spreadTicks,
\* distanceTicks, bestBack) in the pool it is chosen from.
C6_LexicographicMinimum ==
    (pc = "selected" /\ selected # NoRunner) =>
        \E k \in 1..Len(ChosenPool) :
            /\ ChosenPool[k].runner = selected
            /\ \A j \in 1..Len(ChosenPool) : ~TupleLess(ChosenPool[j], ChosenPool[k])

\* the pool holds a runner nearer its target, but of wider spread, than the
\* selected one
C6_Witness ==
    /\ pc = "selected"
    /\ \E k, j \in 1..Len(ChosenPool) :
          /\ ChosenPool[k].runner = selected
          /\ ChosenPool[j].distance_ticks < ChosenPool[k].distance_ticks
          /\ ChosenPool[j].spread_ticks > ChosenPool[k].spread_ticks

\* C7: a selected runner has bestBack and bestLay defined, both inside the
\* hard band, and a spread of at most maxSpreadTicks.
C7_HardGateSafety ==
    (pc = "selected" /\ selected # NoRunner) =>
        /\ selected.best_back # NoPrice
        /\ selected.best_lay # NoPrice
        /\ Within(selected.best_back, Sel.hard_band)
        /\ Within(selected.best_lay, Sel.hard_band)
        /\ ticks_between(selected.best_back, selected.best_lay) <= Sel.max_spread_ticks

\* a runner is selected while another, in a selection band with its back in
\* the hard band, has its lay outside the hard band
C7_Witness ==
    /\ pc = "selected"
    /\ selected # NoRunner
    /\ \E i \in 1..Len(ladders) :
          /\ ladders[i].best_lay # NoPrice
          /\ Within(ladders[i].best_back, Sel.hard_band)
          /\ Within(ladders[i].best_back, Sel.secondary_band)
          /\ ~Within(ladders[i].best_lay, Sel.hard_band)
          /\ SpreadOf(i) <= Sel.max_spread_ticks

\* C8: with anchorImpliedSum below the secondary band's threshold the
\* SECONDARY pool is empty and a selected runner has its bestBack in the
\* primary band; every member of the SECONDARY pool has its bestBack in the
\* secondary band, in a market whose anchorImpliedSum reaches the threshold.
C8_SecondaryCoupling ==
    pc = "selected" =>
        /\ ~Anchored =>
              /\ eligible_secondary = <<>>
              /\ selected # NoRunner => Within(selected.best_back, Sel.primary_band)
        /\ \A k \in 1..Len(eligible_secondary) :
              /\ Within(eligible_secondary[k].runner.best_back, Sel.secondary_band)
              /\ Anchored

\* an unanchored market with a hard-gate survivor in the secondary band only
C8_Witness ==
    /\ pc = "selected"
    /\ ~Anchored
    /\ \E i \in 1..Len(ladders) :
          /\ PassesHardGates(i)
          /\ Within(ladders[i].best_back, Sel.secondary_band)
          /\ ~Within(ladders[i].best_back, Sel.primary_band)
    /\ selected = NoRunner

\* C9: the audit list holds exactly one row for every runner of the ladder,
\* runners without bestBack or bestLay included.
C9_AuditCoversLadder ==
    pc = "selected" =>
        /\ Len(debug) = Len(ladders)
        /\ \A i \in 1..Len(ladders) :
              Cardinality({k \in 1..Len(debug) : debug[k].runner = ladders[i]}) = 1

\* C10: with n the number of runners in the ladder, the runner at price rank r
\* is rank-excluded, and never selected, exactly when r <= topN or
\* r > n - bottomN.
C10_RankExclusionOverLadder ==
    pc = "selected" =>
        /\ \A k \in 1..Len(debug) :
              (debug[k].rank_tag # "none") <=>
                  RankExcludedAmong(debug[k].price_rank, Len(ladders))
        /\ \A i \in 1..Len(ladders) :
              RankExcludedAmong(i, Len(ladders)) => selected # ladders[i]

-----------------------------------------------------------------------------
(* Properties of the rank-exclusion rules *)

RankRules == cfg.selection.rank_exclusion.rules

MatchingRules(n) == {i \in 1..Len(RankRules) : RankRules[i].max_field_size >= n}

\* the (topN, bottomN) the rule list resolves to for a field of n runners
ResolvedExclusion(n) ==
    IF MatchingRules(n) # {}
    THEN [top_n |-> RankRules[MinOf(MatchingRules(n))].top_n,
          bottom_n |-> RankRules[MinOf(MatchingRules(n))].bottom_n]
    ELSE [top_n |-> cfg.selection.rank_exclusion.top_n,
          bottom_n |-> cfg.selection.rank_exclusion.bottom_n]

\* C11: the selection tags a rank as excluded by the (topN, bottomN) of the
\* first rule whose maxFieldSize reaches the number of ACTIVE runners, and by
\* the static pair only when no rule matches or none is configured.
C11_DynamicRankExclusion ==
    pc = "selected" =>
        \A k \in 1..Len(debug) :
            (debug[k].rank_tag # "none") <=>
                \/ debug[k].price_rank <= ResolvedExclusion(Len(ladders)).top_n
                \/ debug[k].price_rank > Len(debug) - ResolvedExclusion(Len(ladders)).bottom_n

-----------------------------------------------------------------------------
(* Properties of the tick helpers *)

\* C12: ticks_between steps by the tick of the band being traversed:
\* ticks_between(1.50, 1.55) = 5 and ticks_between(1.98, 2.02) = 3, two steps
\* of 0.01 up to 2.00 and one step of 0.02 from there.
C12_BandAwareTicks ==
    pc = "walked" =>
        /\ (p1 = 150 /\ p2 = 155) => tick_count = 5
        /\ (p1 = 198 /\ p2 = 202) => tick_count = 3

InDomain(p) == 100 < p /\ p <= 100000

\* a price shared by two bands, and the tick of the lower of the two
SharedBoundaries ==
    { <<200, 1>>, <<300, 2>>, <<400, 5>>, <<600, 10>>, <<1000, 20>>, <<2000, 50>>,
      <<3000, 100>>, <<5000, 200>>, <<10000, 500>> }

\* C13: for prices p1 < p2 of the domain (1.0, 1000.0] the tick of p1 is at
\* most the tick of p2, and a price on a shared band boundary has the tick of
\* the lower band.
C13_TickMonotone ==
    pc \in {"ticked", "walking", "walked"} =>
        /\ (InDomain(p1) /\ InDomain(p2) /\ p1 < p2) => t1 <= t2
        /\ \A b \in SharedBoundaries : p1 = b[1] => t1 = b[2]

\* the boundary 2.00 and the next price above it
C13_Witness ==
    /\ pc = "ticked"
    /\ p1 = 200 /\ p2 = 201
    /\ t1 = 1 /\ t2 = 2

\* C20: tick_size answers for every price, a price below 1.01 with the tick
\* of the lowest band, 0.01, and a price above 1000.00 with the tick of the
\* highest band, 10.00.
C20_NearestBandFallback ==
    pc \in {"ticked", "walking", "walked"} =>
        /\ t1 > 0
        /\ p1 < 101 => t1 = 1
        /\ p1 > 100000 => t1 = 1000

-----------------------------------------------------------------------------
(* Properties of the inspection of one market *)

Judged == pc \in {"verdict", "rejected", "selected"}

\* the ACTIVE runners of the book that have a back offer
PricedInBook ==
    {i \in 1..Len(book) : book[i].status = "ACTIVE" /\ book[i].availableToBack # <<>>}

\* C14: a market with no priced runner, or one, has soup_band_ratio 999 and
\* tier_max_adjacent_ratio 0: its Soup gate passes, its Tier gate fails, and
\* it is not accepted.
C14_SoupTierDefaults ==
    (Judged /\ Cardinality(PricedInBook) <= 1) =>
        /\ metrics.soup_band_ratio = [n |-> 999, d |-> 1]
        /\ metrics.tier_max_adjacent_ratio = [n |-> 0, d |-> 1]
        /\ results[5].ok
        /\ ~results[6].ok
        /\ ~accepted

\* one priced runner in a field of five: every check passes but Tier
C14_Witness ==
    /\ pc = "rejected"
    /\ Cardinality(PricedInBook) = 1
    /\ \A i \in 1..5 : results[i].ok
    /\ ~results[6].ok

ScenarioPrices == {150, 200, 350, 500, 800, 1200, 2000, 4000}

\* the book's ACTIVE runners are eight, backed at the scenario's eight prices
ScenarioBook ==
    /\ Cardinality({i \in 1..Len(book) : book[i].status = "ACTIVE"}) = 8
    /\ Cardinality(PricedInBook) = 8
    /\ {book[i].availableToBack[1] : i \in PricedInBook} = ScenarioPrices

\* C15: eight ACTIVE runners backed at 1.5, 2.0, 3.5, 5.0, 8.0, 12.0, 20.0,
\* 40.0 under anchor(3, 0.65), soup(5, 1.20), tier(6, 1.25): the anchor sum is
\* 1/1.5 + 1/2 + 1/3.5 = 61/42 (1.452...), the soup ratio 8.0/1.5, the tier
\* ratio 3.5/2.0; the three structure gates pass, and with a mapped country
\* and enough liquidity the market is accepted.
C15_EndToEndScenario ==
    (Judged /\ ScenarioBook /\ cfg.structure_gates = ScenarioGates) =>
        /\ metrics.runner_count = 8
        /\ metrics.top_n_implied_sum = [n |-> 61, d |-> 42]
        /\ 1452 * metrics.top_n_implied_sum.d <= 1000 * metrics.top_n_implied_sum.n
        /\ 1000 * metrics.top_n_implied_sum.n < 1453 * metrics.top_n_implied_sum.d
        /\ metrics.soup_band_ratio.n * 150 = 800 * metrics.soup_band_ratio.d
        /\ metrics.tier_max_adjacent_ratio.n * 200 = 350 * metrics.tier_max_adjacent_ratio.d
        /\ results[4].ok /\ results[5].ok /\ results[6].ok
        /\ (country = "GB" /\ total_matched >= 50000) => accepted

\* the scenario's market accepted, with a withdrawn runner beside the eight
C15_Witness ==
    /\ pc = "selected"
    /\ ScenarioBook
    /\ Len(book) = 9
    /\ cfg.structure_gates = ScenarioGates
    /\ accepted

\* C18: select_candidate_runner is entered only from a verdict that accepted
\* the market; a rejected market has no audit row and no selected runner; an
\* inspection ended by a missing catalogue or book has no verdict, no audit
\* row and no selected runner.
C18_SelectionOnlyAfterAcceptance ==
    [][ /\ (pc' = "selected" /\ pc # "selected") =>
               (pc = "verdict" /\ accepted /\ Len(results) = 6)
        /\ pc' = "rejected" =>
               (~accepted' /\ Len(results') = 6 /\ selected' = NoRunner /\ debug' = <<>>
                    /\ eligible_primary' = <<>> /\ eligible_secondary' = <<>>)
        /\ (cat' = <<>> \/ rpc_book' = <<>>) =>
               (pc' \in {"catalogue", "returned"} /\ results' = <<>> /\ ~accepted'
                    /\ selected' = NoRunner /\ debug' = <<>>)
        /\ (pc' = "returned") => (cat' = <<>> \/ rpc_book' = <<>>)
      ]_vars

\* a rejected market with a fully quoted runner inside the primary band
C18_Witness ==
    /\ pc = "rejected"
    /\ ~accepted
    /\ selected = NoRunner
    /\ \E i \in 1..Len(ladders) :
          /\ ladders[i].best_lay # NoPrice
          /\ Within(ladders[i].best_back, cfg.selection.primary_band)

-----------------------------------------------------------------------------
(* Properties of the ladder *)

ActiveInBook == {i \in 1..Len(book) : book[i].status = "ACTIVE"}

QuotesOf(sid) == {k \in 1..Len(ladders) : ladders[k].selection_id = sid}

\* C16: the ladder holds one quote for each ACTIVE runner of the book and
\* none for a runner of another status; runner_count and priced_runner_count
\* count ACTIVE runners only, and every audit row and the selected runner are
\* ACTIVE runners.
C16_OnlyActiveInLadder ==
    pc # "book" =>
        /\ Len(ladders) = Cardinality(ActiveInBook)
        /\ \A i \in 1..Len(book) :
              Cardinality(QuotesOf(book[i].selectionId)) = IF i \in ActiveInBook THEN 1 ELSE 0
        /\ pc \in {"metrics", "selected"} =>
              /\ metrics.runner_count = Cardinality(ActiveInBook)
              /\ metrics.priced_runner_count = Cardinality(PricedInBook)
        /\ pc = "selected" =>
              /\ \A k \in 1..Len(debug) :
                    \E i \in ActiveInBook : debug[k].runner.selection_id = book[i].selectionId
              /\ selected # NoRunner =>
                    \E i \in ActiveInBook : selected.selection_id = book[i].selectionId

\* a runner is selected from a book that holds a withdrawn runner
C16_Witness ==
    /\ pc = "selected"
    /\ selected # NoRunner
    /\ \E i \in 1..Len(book) : book[i].status = "REMOVED"
    /\ Len(ladders) < Len(book)

\* position in the book snapshot of the runner a quote is of
BookPosition(r) == CHOOSE i \in 1..Len(book) : book[i].selectionId = r.selection_id

\* C17: the ladder ascends by bestBack, no quote without bestBack precedes a
\* priced one, and two quotes without bestBack, or of equal bestBack, are in
\* the order of the book snapshot.
C17_LadderOrdering ==
    pc # "book" =>
        \A i, j \in 1..Len(ladders) :
            i < j =>
                /\ ~(ladders[i].best_back = NoPrice /\ ladders[j].best_back # NoPrice)
                /\ (ladders[i].best_back # NoPrice /\ ladders[j].best_back # NoPrice)
                       => ladders[i].best_back <= ladders[j].best_back
                /\ ladders[i].best_back = ladders[j].best_back
                       => BookPosition(ladders[i]) < BookPosition(ladders[j])

\* an unpriced runner first in the book, last in the ladder, after two
\* runners of equal price
C17_Witness ==
    /\ pc = "ladder"
    /\ Len(ladders) = 3
    /\ ladders[1].best_back # NoPrice
    /\ ladders[1].best_back = ladders[2].best_back
    /\ ladders[3].best_back = NoPrice
    /\ ladders[3].selection_id = book[1].selectionId

-----------------------------------------------------------------------------
(* Properties of a repeated selection *)

TupleTie(a, b) ==
    /\ a.spread_ticks = b.spread_ticks
    /\ a.distance_ticks = b.distance_ticks
    /\ a.runner.best_back = b.runner.best_back

C21_ZeroIffNotAbove ==
    pc = "walked" =>
        /\ tick_count = 0 <=> p2 <= p1
        /\ p2 > p1 => tick_count >= 1

\* a crossed pair, and so a spread of 0
C21_Witness ==
    /\ pc = "walked"
    /\ p2 < p1
    /\ tick_count = 0

InPriceDomain(p) == 101 <= p /\ p <= 100000

\* the walk has reached the lay: the step from cur arrives at or beyond it
ReachedLay == walk_cur + tick_size(walk_cur) >= p2

\* C22: every call of ticks_between returns; the walk makes at most 10,000
\* steps and a walk stopped by that bound returns the 10,000 steps made; for
\* a < b in [1.01, 1000] the walk reaches b with steps to spare.
C22_WalkTerminates ==
    /\ [](/\ walk_iter <= 10000
          /\ tick_count <= 10000
          /\ (pc = "walked" /\ p1 < p2) =>
                /\ tick_count = walk_iter
                /\ ReachedLay \/ tick_count = 10000
          /\ (pc = "walked" /\ p1 < p2 /\ InPriceDomain(p1) /\ InPriceDomain(p2)) =>
                (ReachedLay /\ tick_count < 10000))
    /\ <>(pc = "walked")

\* a walk above the highest band, stopped by the bound short of the lay
C22_Witness ==
    /\ pc = "walked"
    /\ tick_count = 10000
    /\ ~ReachedLay

-----------------------------------------------------------------------------
(* Properties of the structure gates and the field size *)

\* number of ladder quotes with a back price; they lead the ladder
QuotedCount == Cardinality({i \in 1..Len(ladders) : ladders[i].best_back # NoPrice})

\* back prices of the first min(k, QuotedCount) quotes of the ladder
TopPrices(k) == {ladders[i].best_back : i \in 1..Min(k, QuotedCount)}

SoupThreshold == GateThreshold("soup", "max_band_ratio", 1200)
TierThreshold == GateThreshold("tier", "min_jump_ratio", 1250)
AnchorThreshold == GateThreshold("anchor", "min_top_implied", 650)

SoupTopK == cfg.structure_gates.soup.top_k
TierTopRegion == cfg.structure_gates.tier.top_region

\* C23: Soup is ok exactly when soupBandRatio is strictly above maxBandRatio,
\* that is, with two or more priced runners among the top K, when the highest
\* of their prices exceeds maxBandRatio times the lowest; a ratio equal to the
\* threshold fails Soup, while Anchor and Tier pass on equality.
C23_SoupGateStrict ==
    Judged =>
        /\ results[5].ok <=>
              metrics.soup_band_ratio.n * 1000 > SoupThreshold * metrics.soup_band_ratio.d
        /\ Min(SoupTopK, QuotedCount) >= 2 =>
              (results[5].ok <=>
                  \E mx \in TopPrices(SoupTopK) : \E mn \in TopPrices(SoupTopK) :
                      /\ \A x \in TopPrices(SoupTopK) : mn <= x /\ x <= mx
                      /\ mx * 1000 > SoupThreshold * mn)
        /\ results[4].ok <=>
              metrics.top_n_implied_sum.n * 1000 >= AnchorThreshold * metrics.top_n_implied_sum.d
        /\ results[6].ok <=>
              metrics.tier_max_adjacent_ratio.n * 1000 >=
                  TierThreshold * metrics.tier_max_adjacent_ratio.d

\* the top-K prices span exactly the threshold ratio: Soup fails, the market
\* is rejected on Soup alone
C23_Witness ==
    /\ pc = "rejected"
    /\ Min(SoupTopK, QuotedCount) >= 2
    /\ metrics.soup_band_ratio.n * 1000 = SoupThreshold * metrics.soup_band_ratio.d
    /\ ~results[5].ok
    /\ \A i \in {1, 2, 3, 4, 6} : results[i].ok

\* adjacent ladder positions inside the top region
TierPairs == {i \in 1..(Min(TierTopRegion, QuotedCount) - 1) : TRUE}

JumpAt(i) == ladders[i + 1].best_back * 1000 >= TierThreshold * ladders[i].best_back

\* C24: Tier is ok exactly when two adjacent quotes among the first
\* min(topRegion, priced runners) quotes, by ascending price, jump by at least
\* minJumpRatio; a jump beyond the top region does not count.
C24_TierGate ==
    Judged => (results[6].ok <=> \E i \in TierPairs : JumpAt(i))

\* Tier fails although prices jump just beyond the top region
C24_Witness ==
    /\ Judged
    /\ ~results[6].ok
    /\ QuotedCount > TierTopRegion
    /\ JumpAt(TierTopRegion)

\* the runner-count range of the resolved region: IE overrides the default
RangeOfRegion == IF region_code = "IE" THEN <<2, 4>> ELSE <<5, 12>>

\* C25: with a region resolved, Field size is ok exactly when the number of
\* ACTIVE runners, priced or not, lies within the region's range or the
\* default one, bounds included.
C25_FieldSizeOnLadder ==
    (Judged /\ Truthy(region_code)) =>
        /\ Len(ladders) = Cardinality({i \in 1..Len(book) : book[i].status = "ACTIVE"})
        /\ results[2].ok <=>
              (RangeOfRegion[1] <= Len(ladders) /\ Len(ladders) <= RangeOfRegion[2])

\* five ACTIVE runners of which one is priced pass the default range 5..12
C25_Witness ==
    /\ Judged
    /\ region_code = "GB"
    /\ Len(ladders) = 5
    /\ metrics.priced_runner_count = 1
    /\ results[2].ok

\* C26: priced_runner_count is the number of ladder quotes whose bestBack is
\* defined and above 1.0; a quote at 1.0 or below counts as unpriced.
C26_PricedAboveOne ==
    Judged =>
        metrics.priced_runner_count =
            Cardinality({i \in 1..Len(ladders) :
                ladders[i].best_back # NoPrice /\ ladders[i].best_back > 100})

-----------------------------------------------------------------------------
(* Properties of the audit rows *)

\* the audit row at position k is a member of the pool
InPool(k, pool) == \E j \in 1..Len(pool) : pool[j] = debug[k]

\* ladder position of the runner of audit row k
LadderPosition(k) == CHOOSE i \in 1..Len(ladders) : ladders[i] = debug[k].runner

\* C27: an audit row carries band PRIMARY or SECONDARY exactly when its runner
\* passed every Phase A gate (both prices, both in the hard band, spread
\* within maxSpreadTicks, not rank-excluded) and is a member of the
\* corresponding eligible pool.
C27_BandOnlyForSurvivors ==
    pc = "selected" =>
        \A k \in 1..Len(debug) :
            /\ debug[k].band = "PRIMARY" <=>
                  (PassesHardGates(LadderPosition(k)) /\ InPool(k, eligible_primary))
            /\ debug[k].band = "SECONDARY" <=>
                  (PassesHardGates(LadderPosition(k)) /\ InPool(k, eligible_secondary))

\* twice the PRIMARY target: the configured target price, or the midpoint
PrimaryTarget2 ==
    IF Sel.primary_band.target_price # NoPrice
    THEN 2 * Sel.primary_band.target_price
    ELSE Sel.primary_band.min + Sel.primary_band.max

\* d is the whole number of ticks nearest the distance from price p to the
\* PRIMARY target, a tick taken at p
NearestTicksToPrimary(d, p) ==
    Abs(Abs(2 * p - PrimaryTarget2) - 2 * d * tick_size(p)) <= tick_size(p)

\* audit rows of hard-gate survivors priced in both selection bands
InBothBands ==
    {k \in 1..Len(debug) :
        /\ PassesHardGates(LadderPosition(k))
        /\ Within(debug[k].runner.best_back, Sel.primary_band)
        /\ Within(debug[k].runner.best_back, Sel.secondary_band)}

\* C28: a hard-gate survivor priced in both the primary and the secondary
\* band is PRIMARY, is in the PRIMARY pool only, and has its distanceTicks
\* measured to the primary target, whatever anchorImpliedSum is.
C28_OverlapIsPrimary ==
    pc = "selected" =>
        \A k \in InBothBands :
            /\ debug[k].band = "PRIMARY"
            /\ InPool(k, eligible_primary)
            /\ ~InPool(k, eligible_secondary)
            /\ debug[k].distance_ticks # NoInt
            /\ NearestTicksToPrimary(debug[k].distance_ticks, debug[k].runner.best_back)

\* an anchored market, a configured primary target, and a survivor in both
\* bands whose distance to the primary target differs from the one to the
\* primary midpoint
C28_Witness ==
    /\ pc = "selected"
    /\ Anchored
    /\ Sel.primary_band.target_price # NoPrice
    /\ \E k \in InBothBands :
          /\ debug[k].band = "PRIMARY"
          /\ Abs(Abs(2 * debug[k].runner.best_back
                        - (Sel.primary_band.min + Sel.primary_band.max))
                   - 2 * debug[k].distance_ticks * tick_size(debug[k].runner.best_back))
                > tick_size(debug[k].runner.best_back)

\* ladder positions whose bestBack is defined and positive
PositivePositions ==
    {i \in 1..Len(ladders) : ladders[i].best_back # NoPrice /\ ladders[i].best_back > 0}

\* C29: the audit rows are in price-rank order: one row for each ladder runner
\* with a defined positive bestBack and no other row, price_rank running
\* 1..k without gap or repeat, bestBack never decreasing along the rows.
C29_AuditInPriceRankOrder ==
    pc = "selected" =>
        /\ Len(debug) = Cardinality(PositivePositions)
        /\ \A i \in PositivePositions :
              Cardinality({k \in 1..Len(debug) : debug[k].runner = ladders[i]}) = 1
        /\ \A k \in 1..Len(debug) :
              /\ debug[k].price_rank = k
              /\ \E i \in PositivePositions : debug[k].runner = ladders[i]
        /\ \A k \in 1..(Len(debug) - 1) :
              debug[k].runner.best_back <= debug[k + 1].runner.best_back

\* two priced runners of different prices get rows, an unpriced one none
C29_Witness ==
    /\ pc = "selected"
    /\ Len(debug) = 2
    /\ Len(ladders) = 3
    /\ debug[1].runner.best_back < debug[2].runner.best_back

\* the row admits its runner to a pool
IsAdmission(row) == row.reason \in {"in primary band", "secondary allowed (anchored)"}

\* C30: with topN + bottomN at least the number of priced runners no runner is
\* selected and every audit row is a rejection.
C30_ExclusionCoversField ==
    (/\ pc = "selected"
     /\ Sel.rank_exclusion.top_n + Sel.rank_exclusion.bottom_n >= Len(debug)) =>
        /\ selected = NoRunner
        /\ eligible_primary = <<>>
        /\ eligible_secondary = <<>>
        /\ \A k \in 1..Len(debug) :
              /\ ~IsAdmission(debug[k])
              /\ debug[k].distance_ticks = NoInt

\* two priced runners, one excluded from the top and one from the bottom,
\* both of them good quotes in the primary band
C30_Witness ==
    /\ pc = "selected"
    /\ Len(debug) = 2
    /\ Sel.rank_exclusion.top_n = 1
    /\ Sel.rank_exclusion.bottom_n = 1
    /\ \A k \in 1..2 :
          /\ Within(debug[k].runner.best_back, Sel.primary_band)
          /\ debug[k].spread_ticks # NoInt
          /\ debug[k].spread_ticks <= Sel.max_spread_ticks
          /\ debug[k].runner.best_lay <= Sel.hard_band.max
    /\ selected = NoRunner

====
